---------------------------- MODULE Spec2Model ----------------------------
(***************************************************************************)
(* A model of umdauth.py: the UMDAuth object (its passcode list, the       *)
(* codes.txt file behind it, the held authentication cookies), the         *)
(* negotiation authenticate() runs request by request, the session         *)
(* factory _new_session() and the actions built on it.                     *)
(*                                                                         *)
(* Text (passcodes, the contents of codes.txt) is a sequence of one-       *)
(* character strings.  The remote servers and the browser are the          *)
(* environment: every response is chosen nondeterministically from a small *)
(* set that holds the well-formed answer and the malformed ones the code   *)
(* fails on.  An uncaught exception unwinds every frame (the source has    *)
(* no try/except) and leaves the object as it was at the raise.            *)
(***************************************************************************)
EXTENDS Naturals, Sequences, FiniteSets, TLC

(***************************************************************************)
(* Bounds of the model.                                                    *)
(***************************************************************************)
\* codes issued over a run (the two the initial file may hold included)
MaxIssued == 4
\* most codes one "Generate Codes" page lists
MaxNew == 2

(***************************************************************************)
(* Text.                                                                   *)
(***************************************************************************)
NL == "\n"
SP == " "
Whitespace == {NL, SP}

\* the distinct passcode tokens the duo service hands out, in order of issue
TokenChars == <<"a", "b", "c", "d", "e", "f", "g", "h", "i", "j">>
Token(k) == <<TokenChars[k]>>

RECURSIVE Join(_)
\* "\n".join(str_codes)
Join(cs) ==
    IF cs = <<>> THEN <<>>
    ELSE IF Len(cs) = 1 THEN cs[1]
    ELSE cs[1] \o <<NL>> \o Join(Tail(cs))

\* str.isspace(): at least one character and all of them whitespace
IsSpace(s) == Len(s) > 0 /\ \A i \in 1..Len(s) : s[i] \in Whitespace

RECURSIVE LStrip(_)
LStrip(s) == IF s # <<>> /\ s[1] \in Whitespace THEN LStrip(Tail(s)) ELSE s

RECURSIVE RStrip(_)
RStrip(s) ==
    IF s # <<>> /\ s[Len(s)] \in Whitespace
    THEN RStrip(SubSeq(s, 1, Len(s) - 1)) ELSE s

\* str.strip()
Strip(s) == RStrip(LStrip(s))

RECURSIVE ReadLines(_, _)
\* f.readlines(): the lines of the text, each with its newline; cur is
\* the line being collected
ReadLines(text, cur) ==
    IF text = <<>> THEN (IF cur = <<>> THEN <<>> ELSE <<cur>>)
    ELSE IF text[1] = NL
         THEN <<Append(cur, NL)>> \o ReadLines(Tail(text), <<>>)
         ELSE ReadLines(Tail(text), Append(cur, text[1]))

RECURSIVE KeepCodes(_)
\* the constructor's loop over the lines: blank lines skipped, others stripped
KeepCodes(lines) ==
    IF lines = <<>> THEN <<>>
    ELSE IF IsSpace(lines[1]) THEN KeepCodes(Tail(lines))
    ELSE <<Strip(lines[1])>> \o KeepCodes(Tail(lines))

\* the passcode list the constructor reads from codes.txt
ReadCodes(text) == KeepCodes(ReadLines(text, <<>>))

\* what _write_codes leaves in codes.txt
WriteCodes(cs) == Join(cs)

RECURSIVE Split(_, _, _)
\* str.split(sep): the pieces of s between the occurrences of sep
Split(s, sep, cur) ==
    IF s = <<>> THEN <<cur>>
    ELSE IF s[1] = sep THEN <<cur>> \o Split(Tail(s), sep, <<>>)
    ELSE Split(Tail(s), sep, Append(cur, s[1]))

(***************************************************************************)
(* Values.                                                                 *)
(***************************************************************************)
\* Python's None, where a string is expected
NoneV == "None"

\* self.auth_cookies = None: no cookie set is held
NoCookies == [JSESSIONID |-> NoneV, shib_idp_session |-> NoneV]

\* session-tracking cookies the identity provider sets on the first GET
TrackingIds == {"P1", "P2"}
\* the cookie of the final response of the first GET (never the one wanted)
FinalId == "PF"
\* identity-provider session cookies
ShibIds == {"S1"}
\* the JSESSIONID renewed for identity.umd.edu
RenewedIds == {"Q1"}
\* a JSESSIONID some other host sets along a redirect chain
OtherId == "PX"

\* one hop of a redirect history: whether it has a set-cookie header, and
\* the JSESSIONID and shib_idp_session cookies it sets
Hop(j, s) == [hdr |-> TRUE, jsid |-> j, shib |-> s]
NoHdr == [hdr |-> FALSE, jsid |-> NoneV, shib |-> NoneV]
Plain == Hop(NoneV, NoneV)

\* cookie scopes of a requests cookie jar
DefaultScope == ""
IdentityDomain == "identity.umd.edu"

Cookie(n, v, d) == [name |-> n, value |-> v, domain |-> d]

\* RequestsCookieJar.set(name, value, domain=d): a None value removes the
\* cookies of that name (of that domain when one is given, of every domain
\* otherwise); any other value replaces the cookie of that name and scope
JarSet(jar, n, v, d, given) ==
    IF v = NoneV
    THEN {c \in jar : ~(c.name = n /\ (~given \/ c.domain = d))}
    ELSE {c \in jar : ~(c.name = n /\ c.domain = d)} \cup {Cookie(n, v, d)}

\* add_dict_to_cookiejar(jar, dict): every entry at the default scope
AddDict(jar, ac) ==
    JarSet(JarSet(jar, "JSESSIONID", ac.JSESSIONID, DefaultScope, FALSE),
           "shib_idp_session", ac.shib_idp_session, DefaultScope, FALSE)

(***************************************************************************)
(* State.                                                                  *)
(***************************************************************************)
VARIABLES
    codes,                  \* self.codes
    file,                   \* the text of codes.txt
    auth_cookies,           \* self.auth_cookies
    identity_jsession_id,   \* self.identity_jsession_id
    stack,                  \* one label per active call, innermost last
    op,                     \* the method the caller invoked
    outcome,                \* "none" while it runs, "ok", or the exception
    code,                   \* locals of authenticate
    generate_codes_after,
    jsession_id,
    umd_shib_url,
    duo_sig_request,
    duo_sig,
    app_sig,
    current_url_encoded,
    sig_response,
    shib_idp_session,
    session,                \* the cookie jar of the session being built or used
    authState,              \* the latest authenticate call of this operation
    pre,                    \* the object as that call found it
    trace,                  \* what this operation has done so far, in order
    submitted,              \* passcodes the prompt endpoint has received,
                            \* those that nothing holds any more left out
    reused,                 \* whether it received one of them twice
    issued,                 \* how many passcodes were ever issued
    drivers,                \* browsers the latest authenticate left running
    sent,                   \* the jar an action made its request with
    other                   \* a second UMDAuth object, once constructed

prog == <<codes, file, auth_cookies, identity_jsession_id>>
locals == <<code, generate_codes_after, jsession_id, umd_shib_url,
            duo_sig_request, duo_sig, app_sig, current_url_encoded,
            sig_response, shib_idp_session>>
ghost == <<submitted, reused, issued, drivers, sent>>
vars == <<codes, file, auth_cookies, identity_jsession_id, stack, op, outcome,
          code, generate_codes_after, jsession_id, umd_shib_url,
          duo_sig_request, duo_sig, app_sig, current_url_encoded,
          sig_response, shib_idp_session, session, authState, pre, trace,
          submitted, reused, issued, drivers, sent, other>>

\* no second object yet
NoOther == [live |-> FALSE, codes |-> <<>>, submitted |-> {}]

NoSent == [by |-> "none", jar |-> {}]
Snapshot == [codes |-> codes, file |-> file, auth_cookies |-> auth_cookies,
             identity_jsession_id |-> identity_jsession_id]

\* codes.txt as the user may have left it: empty, blank, one or two codes,
\* with or without blank lines and a final newline
InitFiles ==
    { <<>>,
      <<NL>>,
      Token(1),
      Token(1) \o <<NL>> \o Token(2),
      Token(1) \o <<NL, NL>> \o Token(2) \o <<NL>> }

\* the auth_cookies and identity_jsession_id arguments of the constructor:
\* none, or the cookies of an earlier negotiation with or without its
\* identity session id
Configs ==
    { [auth_cookies |-> NoCookies, identity_jsession_id |-> NoneV],
      [auth_cookies |-> [JSESSIONID |-> "P1", shib_idp_session |-> "S1"],
       identity_jsession_id |-> "Q0"],
      [auth_cookies |-> [JSESSIONID |-> "P1", shib_idp_session |-> "S1"],
       identity_jsession_id |-> NoneV] }

\* UMDAuth.__init__
Construct(text, cfg) ==
    /\ codes' = ReadCodes(text)
    /\ auth_cookies' = cfg.auth_cookies
    /\ identity_jsession_id' = cfg.identity_jsession_id

ResetLocals ==
    /\ code' = <<>>
    /\ generate_codes_after' = FALSE
    /\ jsession_id' = NoneV
    /\ umd_shib_url' = <<>>
    /\ duo_sig_request' = <<>>
    /\ duo_sig' = <<>>
    /\ app_sig' = <<>>
    /\ current_url_encoded' = <<>>
    /\ sig_response' = <<>>
    /\ shib_idp_session' = NoneV

Init ==
    /\ file \in InitFiles
    /\ \E cfg \in Configs :
        /\ codes = ReadCodes(file)
        /\ auth_cookies = cfg.auth_cookies
        /\ identity_jsession_id = cfg.identity_jsession_id
    /\ stack = <<>>
    /\ op = "none"
    /\ outcome = "none"
    /\ code = <<>>
    /\ generate_codes_after = FALSE
    /\ jsession_id = NoneV
    /\ umd_shib_url = <<>>
    /\ duo_sig_request = <<>>
    /\ duo_sig = <<>>
    /\ app_sig = <<>>
    /\ current_url_encoded = <<>>
    /\ sig_response = <<>>
    /\ shib_idp_session = NoneV
    /\ session = {}
    /\ authState = "none"
    /\ pre = [codes |-> codes, file |-> file, auth_cookies |-> auth_cookies,
              identity_jsession_id |-> identity_jsession_id]
    /\ trace = <<>>
    /\ submitted = {}
    /\ reused = FALSE
    /\ issued = 2
    /\ drivers = 0
    /\ sent = NoSent
    /\ other = NoOther

(***************************************************************************)
(* Control.                                                                *)
(***************************************************************************)
Idle == stack = <<>>
At(l) == stack # <<>> /\ stack[Len(stack)] = l
Below == SubSeq(stack, 1, Len(stack) - 1)

Goto(l) == stack' = Append(Below, l) /\ UNCHANGED <<op, outcome, other>>
\* the running frame resumes at ret once the callee, entered at entry, returns
Call(ret, entry) ==
    stack' = Below \o <<ret, entry>> /\ UNCHANGED <<op, outcome, other>>
\* the running frame returns; the operation is over when it was the outermost
Return ==
    /\ stack' = Below
    /\ op' = op
    /\ outcome' = IF Below = <<>> THEN "ok" ELSE outcome
    /\ other' = other
\* an exception nothing catches: every frame is left
Raise(e) ==
    /\ stack' = <<>>
    /\ op' = op
    /\ outcome' = e
    /\ authState' = IF authState = "running" THEN "raised" ELSE authState
    /\ session' = {}
    /\ ResetLocals
    /\ other' = other

Log(ev) == trace' = Append(trace, ev)

\* the caller invokes a method of the object
Start(name, entry) ==
    /\ Idle
    /\ stack' = <<entry>>
    /\ op' = name
    /\ outcome' = "none"
    /\ authState' = "none"
    /\ trace' = <<>>
    /\ sent' = NoSent
    /\ drivers' = 0
    /\ pre' = Snapshot
    /\ session' = {}
    /\ UNCHANGED <<prog, locals, submitted, reused, issued, other>>

CallAuthenticate == Start("authenticate", "a115")
CallGenerateNewCodes == Start("generate_new_codes", "g272")
CallSendDailySymptomSurvey == Start("send_daily_symptom_survey", "s298")
CallGetDiningDollars == Start("get_dining_dollars", "d319")

\* the process ends and a new one constructs the object from codes.txt
Restart ==
    /\ Idle
    /\ op # "none"
    /\ \E cfg \in Configs : Construct(file, cfg)
    /\ op' = "none"
    /\ outcome' = "none"
    /\ authState' = "none"
    /\ trace' = <<>>
    /\ sent' = NoSent
    /\ drivers' = 0
    /\ pre' = [codes |-> ReadCodes(file), file |-> file,
               auth_cookies |-> auth_cookies', 
               identity_jsession_id |-> identity_jsession_id']
    /\ UNCHANGED <<file, stack, locals, session, submitted, reused, issued,
                   other>>

(***************************************************************************)
(* What the environment may answer.                                        *)
(***************************************************************************)
\* the first GET: a redirect chain of two hops (too short) or three, whose
\* third hop sets the tracking cookie or not; the final response carries
\* another cookie
InitiateResponses ==
    { [history |-> <<Plain, Plain>>, final |-> Hop(FinalId, NoneV)],
      [history |-> <<Plain, Plain, Plain>>, final |-> Hop(FinalId, NoneV)] }
    \cup { [history |-> <<Plain, Plain, Hop(p, NoneV)>>,
            final |-> Hop(FinalId, NoneV)] : p \in TrackingIds }
    \cup { [history |-> <<Plain, Hop(OtherId, NoneV)>>,
            final |-> Hop(FinalId, NoneV)] }
    \cup { [history |-> <<Plain, Hop(OtherId, NoneV), Hop(p, NoneV)>>,
            final |-> Hop(FinalId, NoneV)] : p \in TrackingIds }

\* data-sig-request attributes: without a colon, with one, with two
SigRequests == { <<"A">>, <<"A", ":", "B">>, <<"A", ":", "B", ":", "C">> }

\* the page answering the credential POST: whether it shows the duo marker
\* text, whether it has the duo_iframe element, and its data-sig-request
LoginPages ==
    { [marker |-> FALSE, iframe |-> FALSE, sig |-> <<>>],
      [marker |-> TRUE, iframe |-> FALSE, sig |-> <<>>] }
    \cup { [marker |-> TRUE, iframe |-> TRUE, sig |-> q] : q \in SigRequests }

\* response.cookie of the transaction status
AuthSig == <<"G">>

\* redirect histories of the completion POST
CompleteHistories ==
    { <<>>, <<Plain>>, <<NoHdr>> }
    \cup { <<Hop(NoneV, s)>> : s \in ShibIds }
    \cup { <<Hop(NoneV, s), Plain>> : s \in ShibIds }
    \cup { <<Hop(NoneV, s), Hop(q, NoneV)>> : s \in ShibIds, q \in RenewedIds }
    \cup { <<Hop(NoneV, s), Hop(q, NoneV), Plain>> :
               s \in ShibIds, q \in RenewedIds }

\* redirect histories of the GET that leaves the pending-survey screen;
\* its first hop may set the JSESSIONID of another host
ProceedHistories ==
    { <<Plain>>, <<Plain, Plain>>, <<Plain, NoHdr>> }
    \cup { <<Plain, Hop(q, NoneV)>> : q \in RenewedIds }
    \cup { <<Hop(OtherId, NoneV), Hop(q, NoneV)>> : q \in RenewedIds }

\* the text of the i-th code div of a "Generate Codes" page listing n codes
\* from the k-th issued on; pad says the divs are indented
DivText(k, pad) == IF pad THEN <<SP>> \o Token(k) ELSE Token(k)
DivTexts(k, n, pad) == [i \in 1..n |-> DivText(k + i, pad)]

(***************************************************************************)
(* authenticate                                                            *)
(***************************************************************************)
\* The passcodes a later attempt can still submit: those in self.codes and
\* those a new process would read from codes.txt.  A received passcode
\* outside this set is never submitted again (a code enters self.codes
\* from codes.txt or freshly issued only), so it is dropped from submitted.
Held(cs, text) ==
    {cs[i] : i \in 1..Len(cs)}
        \cup {ReadCodes(text)[i] : i \in 1..Len(ReadCodes(text))}

\* self.codes.pop(0): the code returned and the list left
PopCode(cs) == Head(cs)
PopRest_Keep(cs) == cs
PopRest(cs) == Tail(cs)

\* line 118: "if len(self.codes) == 1", asked before the pop
LastCode_AfterPop(cs) == Len(cs) = 0
LastCode(cs) == Len(cs) = 1

\* lines 116-117: the ValueError of an empty list, raised before anything
\* else is done
Exhausted_AfterGet ==
    /\ stack' = <<>>
    /\ op' = op
    /\ outcome' = "ValueError"
    /\ authState' = "raised"
    /\ session' = {}
    /\ ResetLocals
    /\ trace' = trace \o <<"authenticate", "GET mfaprofile">>
    /\ codes' = codes
    /\ other' = other
Exhausted ==
    /\ stack' = <<>>
    /\ op' = op
    /\ outcome' = "ValueError"
    /\ authState' = "raised"
    /\ session' = {}
    /\ ResetLocals
    /\ Log("authenticate")
    /\ codes' = codes
    /\ other' = other

\* lines 115-127: the empty-list check, the last-code flag, the pop
Auth_Entry ==
    /\ At("a115")
    /\ pre' = Snapshot
    /\ drivers' = 0
    /\ UNCHANGED <<file, auth_cookies, identity_jsession_id, submitted, reused,
                   issued, sent>>
    /\ IF Len(codes) = 0
       THEN Exhausted
       ELSE /\ generate_codes_after' = LastCode(codes)
            /\ code' = PopCode(codes)
            /\ codes' = PopRest(codes)
            /\ trace' = trace \o <<"authenticate", "pop">>
            /\ authState' = "running"
            /\ Goto("a132")
            /\ UNCHANGED <<jsession_id, umd_shib_url, duo_sig_request, duo_sig,
                           app_sig, current_url_encoded, sig_response,
                           shib_idp_session, session>>

\* r.history[2].cookies["JSESSIONID"]
TrackingCookie_Final(r) == r.final.jsid
TrackingCookie(r) == r.history[3].jsid

\* lines 132-135: the first GET and the tracking cookie of its third hop.
\* The trace notes a redirect chain of fewer than three hops.
Auth_Initiate ==
    /\ At("a132")
    /\ UNCHANGED <<prog, pre, ghost>>
    /\ \/ Raise("RequestException") /\ Log("GET mfaprofile")
       \/ \E r \in InitiateResponses :
            /\ trace' = trace \o <<"GET mfaprofile">>
                   \o (IF Len(r.history) < 3 THEN <<"short chain">> ELSE <<>>)
            /\ IF Len(r.history) < 3 THEN Raise("IndexError")
               ELSE IF TrackingCookie(r) = NoneV THEN Raise("KeyError")
               ELSE /\ jsession_id' = TrackingCookie(r)
                    /\ Goto("a141")
                    /\ UNCHANGED <<code, generate_codes_after, umd_shib_url,
                                   duo_sig_request, duo_sig, app_sig,
                                   current_url_encoded, sig_response,
                                   shib_idp_session, session, authState>>

\* the assert of lines 144-145
MarkerAccepted_Always(page) == TRUE
MarkerAccepted(page) == page.marker

\* duo_sig_request.split(":")[0] and [1]
DuoSig(q) == Split(q, ":", <<>>)[1]
AppSig_FirstPiece(q) == Split(q, ":", <<>>)[1]
AppSig(q) == Split(q, ":", <<>>)[2]

\* r.url of the answer to the credential POST
ShibUrls ==
    { <<"h", "t", "t", "p", "s", ":", "/", "/", "x", "/", "y">>,
      <<"h", ":", "/", "/", "x", "?", "e", "=", "e", "1", "s", "2">> }

\* urllib.parse.quote: letters, digits and _ . - ~ are never escaped, nor
\* are the characters of safe; every other character becomes % and the two
\* hexadecimal digits of its code
AlwaysSafe ==
    { "h", "t", "p", "s", "x", "y", "e", "1", "2", "_", ".", "-", "~" }

PercentCode(c) ==
    CASE c = ":" -> <<"%", "3", "A">>
      [] c = "/" -> <<"%", "2", "F">>
      [] c = "?" -> <<"%", "3", "F">>
      [] c = "=" -> <<"%", "3", "D">>
      [] c = "&" -> <<"%", "2", "6">>
      [] c = "%" -> <<"%", "2", "5">>

RECURSIVE Quote(_, _)
Quote(string, safe) ==
    IF string = <<>> THEN <<>>
    ELSE (IF Head(string) \in AlwaysSafe \cup safe
          THEN <<Head(string)>>
          ELSE PercentCode(Head(string)))
         \o Quote(Tail(string), safe)

\* line 171: safe=""
CurrentUrlEncoded_DefaultSafe(url) == Quote(url, {"/"})
CurrentUrlEncoded(url) == Quote(url, {})

\* lines 136-174: the credential POST, the marker check, the iframe's
\* attributes, the two signatures, the encoded URL.  The trace notes a
\* page without the marker text.
Auth_Login ==
    /\ At("a141")
    /\ UNCHANGED <<prog, pre, ghost>>
    /\ \/ Raise("RequestException") /\ Log("POST login")
       \/ \E page \in LoginPages, url \in ShibUrls :
            /\ trace' = trace \o <<"POST login">>
                             \o (IF page.marker THEN <<>> ELSE <<"no marker">>)
            /\ IF ~MarkerAccepted(page) THEN Raise("AssertionError")
               ELSE IF ~page.iframe THEN Raise("AttributeError")
               ELSE IF Len(Split(page.sig, ":", <<>>)) < 2
               THEN Raise("IndexError")
               ELSE /\ umd_shib_url' = url
                    /\ duo_sig_request' = page.sig
                    /\ duo_sig' = DuoSig(duo_sig_request')
                    /\ app_sig' = AppSig(duo_sig_request')
                    /\ current_url_encoded' = CurrentUrlEncoded(url)
                    /\ Goto("a176")
                    /\ UNCHANGED <<code, generate_codes_after, jsession_id,
                                   sig_response, shib_idp_session, session,
                                   authState>>

\* lines 176-184 with the navigation tried again when the URL lacks the sid
Auth_Browser_Retry ==
    /\ At("a176")
    /\ Log("browser")
    /\ drivers' = drivers + 1
    /\ UNCHANGED <<prog, pre, submitted, reused, issued, sent>>
    /\ \E sidInUrl \in BOOLEAN :
         /\ Goto(IF sidInUrl THEN "a195" ELSE "a176")
         /\ UNCHANGED <<locals, session, authState>>

\* lines 176-184: a browser is started and sent to the duo frame; the sid
\* is read from the URL it ends at.  Nothing quits the browser.
Auth_Browser ==
    /\ At("a176")
    /\ Log("browser")
    /\ drivers' = drivers + 1
    /\ UNCHANGED <<prog, pre, submitted, reused, issued, sent>>
    /\ \E sidInUrl \in BOOLEAN :
         IF ~sidInUrl THEN Raise("IndexError")
         ELSE /\ Goto("a195")
              /\ UNCHANGED <<locals, session, authState>>

\* lines 186-196: the passcode goes to the prompt endpoint, which answers
\* with a transaction id or without one
Auth_Prompt ==
    /\ At("a195")
    /\ Log("POST prompt")
    /\ UNCHANGED <<prog, pre, issued, drivers, sent>>
    /\ \/ /\ Raise("RequestException")
          /\ UNCHANGED <<submitted, reused>>
       \/ /\ submitted' = (submitted \cup {code}) \cap Held(codes, file)
          /\ reused' = (reused \/ code \in submitted)
          /\ \E txid \in BOOLEAN :
               IF ~txid THEN Raise("KeyError")
               ELSE /\ Goto("a199")
                    /\ UNCHANGED <<locals, session, authState>>

\* lines 198-199: the status POST, whose answer is not read
Auth_Status ==
    /\ At("a199")
    /\ Log("POST status")
    /\ UNCHANGED <<prog, pre, ghost>>
    /\ \/ Raise("RequestException")
       \/ /\ Goto("a202")
          /\ UNCHANGED <<locals, session, authState>>

\* f"{auth_sig}:{app_sig}"
SigResponse(auth, app) == auth \o <<":">> \o app

\* lines 201-206 with the transaction status asked again while its answer
\* has no cookie
Auth_StatusTx_Poll ==
    /\ At("a202")
    /\ UNCHANGED <<prog, pre, ghost>>
    /\ \E cookie \in BOOLEAN :
         /\ trace' = trace \o <<"POST status/txid">>
                \o (IF cookie THEN <<>> ELSE <<"no cookie">>)
         /\ sig_response' =
                (IF cookie THEN SigResponse(AuthSig, app_sig) ELSE <<>>)
         /\ Goto(IF cookie THEN "a208" ELSE "a202")
         /\ UNCHANGED <<code, generate_codes_after, jsession_id,
                        umd_shib_url, duo_sig_request, duo_sig, app_sig,
                        current_url_encoded, shib_idp_session, session,
                        authState>>

\* lines 201-206: the transaction status POST and the combined signature.
\* The trace notes an answer without the cookie.
Auth_StatusTx ==
    /\ At("a202")
    /\ UNCHANGED <<prog, pre, ghost>>
    /\ \/ Raise("RequestException") /\ Log("POST status/txid")
       \/ \E cookie \in BOOLEAN :
            /\ trace' = trace \o <<"POST status/txid">>
                   \o (IF cookie THEN <<>> ELSE <<"no cookie">>)
            /\ IF ~cookie THEN Raise("KeyError")
               ELSE /\ sig_response' = SigResponse(AuthSig, app_sig)
                    /\ Goto("a208")
                    /\ UNCHANGED <<code, generate_codes_after, jsession_id,
                                   umd_shib_url, duo_sig_request, duo_sig,
                                   app_sig, current_url_encoded,
                                   shib_idp_session, session, authState>>

\* r.history[0].headers["set-cookie"].split("shib_idp_session=")[1].split(";")[0]
HarvestShib(h) == h[1].shib
\* r.history[1].headers["set-cookie"].split("JSESSIONID=")[1].split(";")[0]
HarvestRenewed(h) == h[2].jsid
\* lines 229-231: the same cookie, of the second hop of the proceed GET
ProceedCookie_FirstHop(h) == h[1].jsid
ProceedCookie(h) == h[2].jsid

\* lines 208-225 and 235-249: the completion POST; its history is empty
\* (assert), one hop (the shib cookie is taken, the proceed GET follows) or
\* longer (both cookies are taken from it)
Auth_Complete ==
    /\ At("a208")
    /\ Log("POST shib")
    /\ UNCHANGED <<codes, file, auth_cookies, pre, ghost>>
    /\ \/ /\ Raise("RequestException")
          /\ UNCHANGED identity_jsession_id
       \/ \E h \in CompleteHistories :
            IF Len(h) = 0
            THEN Raise("AssertionError") /\ UNCHANGED identity_jsession_id
            ELSE IF ~h[1].hdr
            THEN Raise("KeyError") /\ UNCHANGED identity_jsession_id
            ELSE IF HarvestShib(h) = NoneV
            THEN Raise("IndexError") /\ UNCHANGED identity_jsession_id
            ELSE IF Len(h) = 1
            THEN /\ shib_idp_session' = HarvestShib(h)
                 /\ session' = JarSet({}, "JSESSIONID", jsession_id,
                                      DefaultScope, FALSE)
                 /\ Goto("a226")
                 /\ UNCHANGED <<code, generate_codes_after, jsession_id,
                                umd_shib_url, duo_sig_request, duo_sig,
                                app_sig, current_url_encoded, sig_response, authState,
                                identity_jsession_id>>
            ELSE IF ~h[2].hdr
            THEN Raise("KeyError") /\ UNCHANGED identity_jsession_id
            ELSE IF HarvestRenewed(h) = NoneV
            THEN Raise("IndexError") /\ UNCHANGED identity_jsession_id
            ELSE /\ shib_idp_session' = HarvestShib(h)
                 /\ identity_jsession_id' = HarvestRenewed(h)
                 /\ session' = JarSet({}, "JSESSIONID", jsession_id,
                                      DefaultScope, FALSE)
                 /\ Goto("a254")
                 /\ UNCHANGED <<code, generate_codes_after, jsession_id,
                                umd_shib_url, duo_sig_request, duo_sig,
                                app_sig, current_url_encoded, sig_response, authState>>

\* lines 226-233: the GET that leaves the pending-survey screen, and the
\* renewed cookie of its second hop
Auth_Proceed ==
    /\ At("a226")
    /\ Log("GET proceed")
    /\ UNCHANGED <<codes, file, auth_cookies, pre, ghost>>
    /\ \/ /\ Raise("RequestException")
          /\ UNCHANGED identity_jsession_id
       \/ \E h \in ProceedHistories :
            IF Len(h) < 2
            THEN Raise("IndexError") /\ UNCHANGED identity_jsession_id
            ELSE IF ~h[2].hdr
            THEN Raise("KeyError") /\ UNCHANGED identity_jsession_id
            ELSE IF ProceedCookie(h) = NoneV
            THEN Raise("IndexError") /\ UNCHANGED identity_jsession_id
            ELSE /\ identity_jsession_id' = ProceedCookie(h)
                 /\ Goto("a254")
                 /\ UNCHANGED <<locals, session, authState>>

\* lines 254-257: the cookie set of a finished negotiation
AssembleCookies(j, s) == [JSESSIONID |-> j, shib_idp_session |-> s]

\* lines 254-261
Auth_Assemble ==
    /\ At("a254")
    /\ auth_cookies' = AssembleCookies(jsession_id, shib_idp_session)
    /\ Log("assemble")
    /\ Goto("a265")
    /\ UNCHANGED <<codes, file, identity_jsession_id, locals, session,
                   authState, pre, ghost>>

\* lines 263-265
Auth_Write ==
    /\ At("a265")
    /\ file' = WriteCodes(codes)
    /\ submitted' = submitted \cap Held(codes, file')
    /\ Log("write")
    /\ Goto("a267")
    /\ UNCHANGED <<codes, auth_cookies, identity_jsession_id, locals, session,
                   authState, pre, reused, issued, drivers, sent>>

\* authenticate returns to its caller
AuthReturn ==
    /\ Return
    /\ authState' = "returned"
    /\ session' = {}
    /\ ResetLocals
    /\ Log("return")
    /\ UNCHANGED <<prog, pre, ghost>>

\* lines 267-268: new codes are generated when the last one was used
Auth_Generate ==
    /\ At("a267")
    /\ IF generate_codes_after
       THEN /\ Call("a269", "g272")
            /\ UNCHANGED <<prog, locals, session, authState, pre, trace, ghost>>
       ELSE AuthReturn

\* the end of authenticate, reached when generate_new_codes has returned
Auth_Return ==
    /\ At("a269")
    /\ AuthReturn

(***************************************************************************)
(* _new_session                                                            *)
(***************************************************************************)
\* "if not self.auth_cookies"
NeedsNegotiation_Always(ac) == TRUE
NeedsNegotiation(ac) == ac = NoCookies

\* lines 62-64: authenticate is called when no cookies are held
NewSession_Entry ==
    /\ At("n63")
    /\ Log("_new_session")
    /\ IF NeedsNegotiation(auth_cookies)
       THEN Call("n65", "a115")
       ELSE Goto("n65")
    /\ UNCHANGED <<prog, locals, session, authState, pre, ghost>>

\* lines 65-68: a fresh jar with the held cookies at the default scope and
\* the identity session id as JSESSION of identity.umd.edu
BuildSession_Unscoped(ac, idj) ==
    JarSet(AddDict({}, ac), "JSESSION", idj, DefaultScope, FALSE)
BuildSession(ac, idj) ==
    JarSet(AddDict({}, ac), "JSESSION", idj, IdentityDomain, TRUE)

\* lines 65-69
NewSession_Build ==
    /\ At("n65")
    /\ session' = BuildSession(auth_cookies, identity_jsession_id)
    /\ Log("session")
    /\ Return
    /\ UNCHANGED <<prog, locals, authState, pre, ghost>>

(***************************************************************************)
(* generate_new_codes                                                      *)
(***************************************************************************)
\* lines 271-272
Generate_Entry ==
    /\ At("g272")
    /\ Log("generate_new_codes")
    /\ Call("g274", "n63")
    /\ UNCHANGED <<prog, locals, session, authState, pre, ghost>>

\* line 279: session.cookies.set("JSESSIONID", self.identity_jsession_id)
GenerateJar(jar, idj) == JarSet(jar, "JSESSIONID", idj, DefaultScope, FALSE)

\* lines 274-294: the POST with the jar of line 279, the codes of the page
\* it answers with, which replace self.codes and codes.txt.  The request
\* fails, or the page lacks the printWindow element, or it lists codes
\* never issued before: at least one of the ten asked for, at most MaxNew.
Generate_Post ==
    /\ At("g274")
    /\ sent' = [by |-> "generate_new_codes",
                jar |-> GenerateJar(session, identity_jsession_id)]
    /\ UNCHANGED <<auth_cookies, identity_jsession_id, pre, reused, drivers>>
    /\ \/ /\ Raise("RequestException")
          /\ Log("POST mfaprofile")
          /\ UNCHANGED <<codes, file, issued, submitted>>
       \/ /\ Raise("AttributeError")
          /\ Log("POST mfaprofile")
          /\ UNCHANGED <<codes, file, issued, submitted>>
       \/ \E n \in 1..MaxNew, pad \in BOOLEAN :
            /\ issued + n <= MaxIssued
            /\ codes' = DivTexts(issued, n, pad)
            /\ file' = WriteCodes(codes')
            /\ submitted' = submitted \cap Held(codes', file')
            /\ issued' = issued + n
            /\ trace' = trace \o <<"POST mfaprofile", "replenish">>
            /\ session' = {}
            /\ Return
            /\ UNCHANGED <<locals, authState>>

(***************************************************************************)
(* The actions built on a session.                                         *)
(***************************************************************************)
\* lines 297-298
Survey_Entry ==
    /\ At("s298")
    /\ Log("send_daily_symptom_survey")
    /\ Call("s300", "n63")
    /\ UNCHANGED <<prog, locals, session, authState, pre, ghost>>

\* lines 300-316: the survey is fetched and sent back.  A server that no
\* longer accepts the cookies answers with its login page, which json.loads
\* of line 301 cannot read.
Survey_Send ==
    /\ At("s300")
    /\ sent' = [by |-> "send_daily_symptom_survey", jar |-> session]
    /\ UNCHANGED <<prog, pre, submitted, reused, issued, drivers>>
    /\ \/ /\ Raise("RequestException")
          /\ Log("GET daily")
       \/ /\ Raise("JSONDecodeError")
          /\ trace' = trace \o <<"GET daily", "login page">>
       \/ /\ session' = {}
          /\ Log("GET daily")
          /\ Return
          /\ UNCHANGED <<locals, authState>>

\* line 319
Dining_Entry ==
    /\ At("d319")
    /\ Log("get_dining_dollars")
    /\ Call("d322", "n63")
    /\ UNCHANGED <<prog, locals, session, authState, pre, ghost>>

\* lines 322-333: the balance page is fetched and read.  A server that no
\* longer accepts the cookies answers with its login page, which has no
\* element of class card for line 325.
Dining_Get ==
    /\ At("d322")
    /\ sent' = [by |-> "get_dining_dollars", jar |-> session]
    /\ UNCHANGED <<prog, pre, submitted, reused, issued, drivers>>
    /\ \/ /\ Raise("RequestException")
          /\ Log("GET cas.do")
       \/ /\ Raise("IndexError")
          /\ trace' = trace \o <<"GET cas.do", "login page">>
       \/ /\ session' = {}
          /\ Log("GET cas.do")
          /\ Return
          /\ UNCHANGED <<locals, authState>>

(***************************************************************************)
(* A second UMDAuth object.  CODES_PATH is an attribute of the class, so    *)
(* the object reads and writes the same codes.txt; its list is its own.     *)
(* Each of its calls is taken as one step.                                  *)
(***************************************************************************)
\* what a call of the second object leaves alone
OtherFrame ==
    UNCHANGED <<codes, auth_cookies, identity_jsession_id, stack, op, outcome,
                locals, session, authState, pre, trace, submitted, reused,
                drivers, sent>>

\* UMDAuth.__init__ of the second object
Other_Construct ==
    /\ ~other.live
    /\ other' = [live |-> TRUE, codes |-> ReadCodes(file), submitted |-> {}]
    /\ UNCHANGED <<file, issued>>
    /\ OtherFrame

\* authenticate() of the second object: it pops its passcode and fails
\* before the prompt POST, or after it, or finishes and writes its list to
\* codes.txt, then asks for new codes when the one it used was its last
Other_Authenticate ==
    /\ other.live
    /\ other.codes # <<>>
    /\ OtherFrame
    /\ LET c == Head(other.codes)
           rest == Tail(other.codes)
           posted == other.submitted \cup {c}
       IN \/ /\ other' = [other EXCEPT !.codes = rest]
             /\ UNCHANGED <<file, issued>>
          \/ /\ other' = [other EXCEPT !.codes = rest, !.submitted = posted]
             /\ UNCHANGED <<file, issued>>
          \/ /\ rest # <<>> \/ issued = MaxIssued
             /\ other' = [other EXCEPT !.codes = rest, !.submitted = posted]
             /\ file' = WriteCodes(rest)
             /\ issued' = issued
          \/ /\ rest = <<>>
             /\ \E n \in 1..MaxNew, pad \in BOOLEAN :
                  /\ issued + n <= MaxIssued
                  /\ other' = [other EXCEPT !.codes = DivTexts(issued, n, pad),
                                            !.submitted = posted]
                  /\ file' = WriteCodes(DivTexts(issued, n, pad))
                  /\ issued' = issued + n

(***************************************************************************)
(* The specification.                                                      *)
(***************************************************************************)
Next ==
    \/ CallAuthenticate
    \/ CallGenerateNewCodes
    \/ CallSendDailySymptomSurvey
    \/ CallGetDiningDollars
    \/ Restart
    \/ Auth_Entry
    \/ Auth_Initiate
    \/ Auth_Login
    \/ Auth_Browser
    \/ Auth_Prompt
    \/ Auth_Status
    \/ Auth_StatusTx
    \/ Auth_Complete
    \/ Auth_Proceed
    \/ Auth_Assemble
    \/ Auth_Write
    \/ Auth_Generate
    \/ Auth_Return
    \/ NewSession_Entry
    \/ NewSession_Build
    \/ Generate_Entry
    \/ Generate_Post
    \/ Survey_Entry
    \/ Survey_Send
    \/ Dining_Entry
    \/ Dining_Get

Spec == Init /\ [][Next]_vars

\* two objects in use: the first one negotiates step by step, the second
\* one is constructed and negotiates between those steps
NextTwo ==
    \/ CallAuthenticate
    \/ Auth_Entry
    \/ Auth_Initiate
    \/ Auth_Login
    \/ Auth_Browser
    \/ Auth_Prompt
    \/ Auth_Status
    \/ Auth_StatusTx
    \/ Auth_Complete
    \/ Auth_Proceed
    \/ Auth_Assemble
    \/ Auth_Write
    \/ Auth_Generate
    \/ Auth_Return
    \/ NewSession_Entry
    \/ NewSession_Build
    \/ Generate_Entry
    \/ Generate_Post
    \/ Other_Construct
    \/ Other_Authenticate

SpecTwo == Init /\ [][NextTwo]_vars

(***************************************************************************)
(* Properties.                                                             *)
(***************************************************************************)
Count(tr, ev) == Cardinality({i \in 1..Len(tr) : tr[i] = ev})
Before(tr, a, i) == \E j \in 1..(i - 1) : tr[j] = a

\* the trace entries that are requests or browser launches
Requests ==
    { "GET mfaprofile", "POST login", "browser", "POST prompt", "POST status",
      "POST status/txid", "POST shib", "GET proceed", "POST mfaprofile",
      "GET daily", "GET cas.do" }

\* an authenticate call of this operation got past its first check
Attempted == authState \in {"running", "returned", "raised"} /\ pre.codes # <<>>

\* C1: an authenticate call that finds a non-empty list removes exactly one
\* passcode, the head of the list, before any request is made; whether the
\* call is still running, has returned or has raised, the list is the tail
\* of the list it found (until new codes replace it), so the passcode is
\* not put back on failure.
C1_OneCodeConsumed ==
    Attempted =>
        /\ Count(trace, "pop") = 1
        /\ authState = "running" => code = Head(pre.codes)
        /\ Count(trace, "replenish") = 0 => codes = Tail(pre.codes)
        /\ \A i \in 1..Len(trace) :
               trace[i] \in Requests => Before(trace, "pop", i)

\* an attempt that got as far as the completion POST and then failed
C1_Witness ==
    /\ authState = "raised"
    /\ Len(pre.codes) = 2
    /\ Count(trace, "POST shib") = 1
    /\ codes = Tail(pre.codes)

\* C2: no passcode is submitted to the prompt endpoint twice, a restart
\* that reloads codes.txt between attempts included.
C2_NeverReused == ~reused

\* C3: whenever authenticate or generate_new_codes has finished, returning
\* or raising, the list read back from codes.txt is self.codes.
C3_FileMatchesCodes ==
    (Idle /\ op \in {"authenticate", "generate_new_codes"} /\ outcome # "none")
        => ReadCodes(file) = codes

\* C4: authenticate on an empty list raises at once (the ValueError of
\* line 117): no request, no browser, and the list, the file and the held
\* cookies are as the call found them; and no attempt runs on an empty list.
C4_ExhaustedFailsAtOnce ==
    /\ (authState = "raised" /\ pre.codes = <<>>) =>
          /\ outcome = "ValueError"
          /\ \A i \in 1..Len(trace) : trace[i] \notin Requests
          /\ drivers = 0
          /\ codes = pre.codes
          /\ file = pre.file
          /\ auth_cookies = pre.auth_cookies
          /\ identity_jsession_id = pre.identity_jsession_id
    /\ authState \in {"running", "returned"} => pre.codes # <<>>

\* the survey needed a negotiation and the list was empty, though
\* codes.txt still holds a passcode
C4_Witness ==
    /\ op = "send_daily_symptom_survey"
    /\ authState = "raised"
    /\ pre.codes = <<>>
    /\ ReadCodes(file) # <<>>
    /\ outcome = "ValueError"

\* C5: when the page answering the credential POST lacks the marker text the
\* attempt raises (the AssertionError of line 144) with that POST as its
\* last step, and the passcode it popped is not back in the list.
C5_RejectedStopsAttempt ==
    Count(trace, "no marker") > 0 =>
        /\ authState = "raised"
        /\ outcome = "AssertionError"
        /\ trace[Len(trace)] = "no marker"
        /\ \A ev \in {"browser", "POST prompt", "POST status",
                      "POST status/txid", "POST shib", "GET proceed"} :
               Count(trace, ev) = 0
        /\ codes = Tail(pre.codes)
        /\ auth_cookies = pre.auth_cookies

\* the marker was missing with a second passcode left behind the popped one
C5_Witness ==
    /\ Count(trace, "no marker") = 1
    /\ Len(pre.codes) = 2
    /\ codes = Tail(pre.codes)
    /\ authState = "raised"

\* the list and the file as a replenishment leaves them, holding codes
\* that generate_new_codes scraped
Replenished(cs, text) ==
    /\ cs # <<>>
    /\ text = WriteCodes(cs)
    /\ \A i \in 1..Len(cs) : cs[i] \notin {Token(1), Token(2)}

\* C6: after a replenishment with [a, b, c] the next consumption returns a,
\* and codes.txt read back yields exactly [b, c].
C6_ReplenishThenNext ==
    (Attempted /\ Replenished(pre.codes, pre.file)
         /\ Count(trace, "replenish") = 0) =>
        /\ authState = "running" => code = Head(pre.codes)
        /\ authState \in {"returned", "raised"} =>
               ReadCodes(file) = Tail(pre.codes)

FactoryJar(jar, p, q) ==
    /\ Cookie("JSESSIONID", p, DefaultScope) \in jar
    /\ {c \in jar : c.value = q} = {Cookie("JSESSION", q, IdentityDomain)}

\* C8 as stated: every jar an action makes its request with holds P at the
\* default scope and Q in a cookie of identity.umd.edu only.
C8_EveryActionJar ==
    (sent.by # "none" /\ identity_jsession_id # NoneV) =>
        FactoryJar(sent.jar, auth_cookies.JSESSIONID, identity_jsession_id)

\* C8, amended: the jar _new_session returns holds P at the default scope
\* and Q in the JSESSION cookie of identity.umd.edu only, and the survey
\* and the balance lookup make their requests with it; generate_new_codes
\* first sets JSESSIONID to Q at the default scope, in place of P.
C8_FactoryJar ==
    identity_jsession_id # NoneV =>
        /\ (At("g274") \/ At("s300") \/ At("d322")) =>
              FactoryJar(session, auth_cookies.JSESSIONID, identity_jsession_id)
        /\ sent.by \in {"send_daily_symptom_survey", "get_dining_dollars"} =>
              FactoryJar(sent.jar, auth_cookies.JSESSIONID,
                         identity_jsession_id)
        /\ sent.by = "generate_new_codes" =>
              /\ Cookie("JSESSIONID", identity_jsession_id, DefaultScope)
                     \in sent.jar
              /\ Cookie("JSESSION", identity_jsession_id, IdentityDomain)
                     \in sent.jar
              /\ Cookie("JSESSIONID", auth_cookies.JSESSIONID, DefaultScope)
                     \notin sent.jar

\* generate_new_codes made its request after a negotiation of its own
C8_Witness ==
    /\ sent.by = "generate_new_codes"
    /\ op = "generate_new_codes"
    /\ authState = "returned"
    /\ identity_jsession_id \in RenewedIds
    /\ Cookie("JSESSIONID", identity_jsession_id, DefaultScope) \in sent.jar

\* cookies were held when the i-th entry of the trace was made
HeldAt(i) == pre.auth_cookies # NoCookies \/ Before(trace, "assemble", i)

\* C9: _new_session calls authenticate exactly when no cookies are held;
\* a session is built only with cookies held, either at once or, when
\* _new_session called authenticate, right after authenticate returned;
\* and an action that starts with cookies held runs no negotiation and
\* leaves the passcode list alone.
C9_NegotiatesIffNoCookies ==
    /\ \A i \in 1..Len(trace) :
          /\ (trace[i] = "_new_session" /\ i < Len(trace)) =>
                trace[i + 1] = (IF HeldAt(i) THEN "session" ELSE "authenticate")
          /\ trace[i] = "session" =>
                /\ HeldAt(i)
                /\ i > 1
                /\ \/ trace[i - 1] = "return"
                   \/ trace[i - 1] = "_new_session" /\ HeldAt(i - 1)
    /\ (op \in {"send_daily_symptom_survey", "get_dining_dollars"}
          /\ pre.auth_cookies # NoCookies) =>
              /\ Count(trace, "authenticate") = 0
              /\ Count(trace, "pop") = 0
              /\ codes = pre.codes

\* the survey was sent with a session built after one negotiation
C9_Witness ==
    /\ op = "send_daily_symptom_survey"
    /\ outcome = "ok"
    /\ Count(trace, "authenticate") = 1
    /\ Count(trace, "session") = 1

\* C10: a negotiation that stores its cookies has paired the tracking
\* cookie of the first GET with the harvested shib_idp_session and has
\* recorded a renewed JSESSIONID for identity.umd.edu, whether the
\* completion POST had one hop (and the proceed GET followed) or more.
C10_SameShapeBothBranches ==
    /\ (authState = "running" /\ Count(trace, "assemble") = 1) =>
          /\ auth_cookies = [JSESSIONID |-> jsession_id,
                             shib_idp_session |-> shib_idp_session]
          /\ jsession_id \in TrackingIds
          /\ shib_idp_session \in ShibIds
          /\ identity_jsession_id \in RenewedIds
    /\ authState = "returned" =>
          /\ auth_cookies.JSESSIONID \in TrackingIds
          /\ auth_cookies.shib_idp_session \in ShibIds
          /\ identity_jsession_id \in RenewedIds

\* a negotiation that went through the pending-survey screen has returned
C10_Witness ==
    /\ authState = "returned"
    /\ Count(trace, "GET proceed") = 1
    /\ pre.auth_cookies = NoCookies

\* C11: whenever authenticate ends with an error, the replenishment after
\* the last code included, auth_cookies and identity_jsession_id are what
\* they were before the call.
C11_NoPartialState ==
    authState = "raised" =>
        /\ auth_cookies = pre.auth_cookies
        /\ identity_jsession_id = pre.identity_jsession_id

\* C12: in every terminal state of an attempt, returned or raised, no
\* browser the attempt started is still running.
C12_BrowserTornDown ==
    authState \in {"returned", "raised"} => drivers = 0

\* C13: one navigation whose final URL lacks the sid does not fail the
\* negotiation: an attempt fails at the browser step only after the
\* navigation was tried more than once.
C13_NavigationRetried ==
    (authState = "raised" /\ trace # <<>> /\ trace[Len(trace)] = "browser")
        => Count(trace, "browser") > 1

\* C14: when the survey or the balance request is answered with the login
\* page while cookies are held, the action ends with SessionExpiredError
\* and the held cookies are purged, so that the next session is built by a
\* new negotiation.
C14_ExpiredSessionPurged ==
    (Idle /\ Count(trace, "login page") > 0 /\ pre.auth_cookies # NoCookies)
        => /\ outcome = "SessionExpiredError"
           /\ auth_cookies = NoCookies

\* the position of the first colon of a text that has one
FirstColon(q) ==
    CHOOSE k \in 1..Len(q) : q[k] = ":" /\ \A j \in 1..(k - 1) : q[j] # ":"

\* the text after the first colon, up to the end
AfterFirstColon(q) == SubSeq(q, FirstColon(q) + 1, Len(q))

\* the text after the first colon, up to the next colon or the end
RECURSIVE UpToColon(_)
UpToColon(q) ==
    IF q = <<>> \/ Head(q) = ":" THEN <<>>
    ELSE <<Head(q)>> \o UpToColon(Tail(q))

\* C15 as stated: the signature string is split on its first colon; the
\* challenge signature is the text before it, the application signature all
\* the text after it, further colons included, and the combined signature
\* is the authentication signature, a colon, and that application signature.
C15_SplitOnFirstColon ==
    duo_sig_request # <<>> =>
        /\ duo_sig = SubSeq(duo_sig_request, 1, FirstColon(duo_sig_request) - 1)
        /\ app_sig = AfterFirstColon(duo_sig_request)
        /\ sig_response # <<>> =>
              sig_response = AuthSig \o <<":">> \o AfterFirstColon(duo_sig_request)

\* C15, amended: the signature string is split on every colon; the challenge
\* signature is the text before the first colon, the application signature
\* the text between the first colon and the second (or the end), and the
\* combined signature is the authentication signature, a colon, and that
\* application signature.
C15_SecondPiece ==
    duo_sig_request # <<>> =>
        /\ duo_sig = SubSeq(duo_sig_request, 1, FirstColon(duo_sig_request) - 1)
        /\ app_sig = UpToColon(AfterFirstColon(duo_sig_request))
        /\ sig_response # <<>> =>
              sig_response = AuthSig \o <<":">>
                                 \o UpToColon(AfterFirstColon(duo_sig_request))

\* a signature string with two colons went into a combined signature
C15_Witness ==
    /\ duo_sig_request = <<"A", ":", "B", ":", "C">>
    /\ sig_response = <<"G", ":", "B">>

\* how many characters of a text are in a set
RECURSIVE CountIn(_, _)
CountIn(text, set) ==
    IF text = <<>> THEN 0
    ELSE (IF Head(text) \in set THEN 1 ELSE 0) + CountIn(Tail(text), set)

\* C17: the parent URL is encoded as a whole component: the encoded text
\* has no "/" and no ":", every "/" of the URL has become %2F and every ":"
\* %3A, each character outside the unreserved ones has become three, and
\* https://x/y is encoded as https%3A%2F%2Fx%2Fy.
C17_FullComponentEncoding ==
    current_url_encoded # <<>> =>
        /\ CountIn(current_url_encoded, {"/", ":"}) = 0
        /\ \A k \in 1..Len(current_url_encoded) :
              current_url_encoded[k] = "%" =>
                  /\ k + 2 <= Len(current_url_encoded)
                  /\ SubSeq(current_url_encoded, k + 1, k + 2)
                         \in { <<"2", "F">>, <<"3", "A">>, <<"3", "F">>,
                               <<"3", "D">>, <<"2", "6">>, <<"2", "5">> }
        /\ CountIn(current_url_encoded, {"F"})
               >= CountIn(umd_shib_url, {"/"})
        /\ CountIn(current_url_encoded, {"A"})
               = CountIn(umd_shib_url, {":"})
        /\ Len(current_url_encoded) = Len(umd_shib_url)
               + 2 * CountIn(umd_shib_url, {":", "/", "?", "=", "&", "%"})
        /\ umd_shib_url = <<"h", "t", "t", "p", "s", ":", "/", "/", "x", "/", "y">>
               => current_url_encoded =
                      <<"h", "t", "t", "p", "s", "%", "3", "A", "%", "2", "F",
                        "%", "2", "F", "x", "%", "2", "F", "y">>

\* the URL https://x/y was encoded and the browser was sent to the frame
C17_Witness ==
    /\ umd_shib_url = <<"h", "t", "t", "p", "s", ":", "/", "/", "x", "/", "y">>
    /\ Len(current_url_encoded) = 19
    /\ Count(trace, "browser") = 1

\* the steps of a negotiation in the order of the source
AuthSteps ==
    << "pop", "GET mfaprofile", "POST login", "browser", "POST prompt",
       "POST status", "POST status/txid", "POST shib", "GET proceed",
       "assemble", "write" >>

Rank(ev) == CHOOSE k \in 1..Len(AuthSteps) : AuthSteps[k] = ev
IsStep(ev) == \E k \in 1..Len(AuthSteps) : AuthSteps[k] = ev

\* C18: the steps of a negotiation run in the order of the source, each at
\* most once and none skipped (the proceed request alone is optional), so
\* the passcode is taken before the first request; the passcode goes to the
\* prompt endpoint only when the page had the marker text; the completion
\* POST is made only with a combined signature in hand; and once the
\* attempt has raised nothing of it is still running.
C18_StrictOrder ==
    /\ \A i, j \in 1..Len(trace) :
          (i < j /\ IsStep(trace[i]) /\ IsStep(trace[j]))
              => Rank(trace[i]) < Rank(trace[j])
    /\ \A i \in 1..Len(trace) :
          (IsStep(trace[i]) /\ Rank(trace[i]) > 1) =>
              \/ Before(trace, AuthSteps[Rank(trace[i]) - 1], i)
              \/ /\ trace[i] = "assemble"
                 /\ Before(trace, "POST shib", i)
    /\ Count(trace, "POST prompt") > 0 =>
          /\ Count(trace, "no marker") = 0
          /\ Count(trace, "POST login") = 1
    /\ (authState = "running" /\ Count(trace, "POST shib") > 0) =>
          /\ sig_response # <<>>
          /\ Count(trace, "POST status/txid") = 1
    /\ At("a208") => sig_response # <<>>
    /\ authState = "raised" => Idle

\* an attempt that failed at the second status request, after six steps
C18_Witness ==
    /\ authState = "raised"
    /\ trace # <<>>
    /\ Count(trace, "POST status/txid") = 1
    /\ Count(trace, "POST shib") = 0

\* C19: the tracking cookie an attempt works with is the one set by the
\* third hop (index 2) of the redirect history of the first GET, never the
\* cookie of another hop or of the final response: the credential POST is
\* made with it, the completion POST carries it in its jar, and it is the
\* JSESSIONID of the stored cookie set; a chain of fewer than three hops
\* ends the attempt before the credential POST.
C19_TrackingFromThirdHop ==
    /\ jsession_id # NoneV => jsession_id \in TrackingIds
    /\ (authState = "running" /\ Count(trace, "POST login") > 0)
          => jsession_id \in TrackingIds
    /\ (At("a226") \/ At("a254") \/ At("a265"))
          => Cookie("JSESSIONID", jsession_id, DefaultScope) \in session
    /\ (authState = "running" /\ Count(trace, "assemble") > 0)
          => auth_cookies.JSESSIONID = jsession_id
    /\ authState = "returned" => auth_cookies.JSESSIONID \in TrackingIds
    /\ Count(trace, "short chain") > 0 =>
          /\ authState = "raised"
          /\ outcome = "IndexError"
          /\ Count(trace, "POST login") = 0

\* another hop and the final response set cookies too, and the attempt
\* stored the one of the third hop
C19_Witness ==
    /\ authState = "returned"
    /\ auth_cookies.JSESSIONID = "P2"
    /\ Count(trace, "POST shib") = 1

\* C20: an attempt checks the status once: at most one POST to the status
\* endpoint and at most one to the transaction's status endpoint, the
\* second made right after the first and only after the prompt answered;
\* when the second answer has no authentication signature the attempt ends
\* there with an error, without another status request.
C20_OneStatusCheck ==
    /\ Count(trace, "POST status") <= 1
    /\ Count(trace, "POST status/txid") <= 1
    /\ \A i \in 1..Len(trace) :
          /\ trace[i] = "POST status/txid" =>
                i > 1 /\ trace[i - 1] = "POST status"
          /\ trace[i] = "POST status" =>
                i > 1 /\ trace[i - 1] = "POST prompt"
    /\ Count(trace, "no cookie") > 0 =>
          /\ authState = "raised"
          /\ outcome = "KeyError"
          /\ trace[Len(trace)] = "no cookie"
          /\ trace[Len(trace) - 1] = "POST status/txid"
          /\ Count(trace, "POST shib") = 0

\* the second status answer had no authentication signature
C20_Witness ==
    /\ Count(trace, "no cookie") = 1
    /\ Count(trace, "POST status") = 1
    /\ authState = "raised"

\* C16: two UMDAuth objects have independent passcode stores: the two never
\* submit the same passcode, and what the first has persisted by a finished
\* negotiation is what codes.txt holds, whatever the second has consumed or
\* replenished in between.
C16_IndependentStores ==
    /\ submitted \cap other.submitted = {}
    /\ (Idle /\ op = "authenticate" /\ outcome = "ok")
           => file = WriteCodes(codes)

(***************************************************************************)
(* The sites of authenticate's documentation.                              *)
(***************************************************************************)
\* 1 identity.umd.edu/mfaprofile, 2 app.testudo.umd.edu/main/profile,
\* 3 umd.instructure.com, 4 return.umd.edu, 5 dsonline2.umd.edu
Sites == 1..5

\* the pairs of the documentation without (1, 5)
Grants_Without15 ==
    { <<1, 3>>, <<1, 4>>, <<2, 3>>, <<2, 4>>, <<2, 5>>, <<3, 5>>, <<4, 5>> }

\* (a, b): logging into a gives access to b
Grants ==
    { <<1, 3>>, <<1, 4>>, <<1, 5>>, <<2, 3>>, <<2, 4>>, <<2, 5>>, <<3, 5>>,
      <<4, 5>> }

\* the site the negotiation logs into: the GET of line 132
ChosenSite == 1

\* the listed site a request of the trace goes to, 0 for the requests to
\* the identity provider and to duo
SiteOf(ev) ==
    CASE ev \in {"GET mfaprofile", "POST mfaprofile"} -> 1
      [] ev = "GET daily" -> 4
      [] ev = "GET cas.do" -> 5
      [] OTHER -> 0

\* C21: "grants access to" over the five listed sites is a strict partial
\* order; the chosen site, site 1, is a maximal element of it, is
\* incomparable with site 2 and grants access to every other listed site;
\* and every request the program makes to a listed site goes to the chosen
\* site or to a site the chosen one grants access to.
C21_GrantsPartialOrder ==
    /\ Grants \subseteq Sites \X Sites
    /\ \A a \in Sites : <<a, a>> \notin Grants
    /\ \A a, b \in Sites : <<a, b>> \in Grants => <<b, a>> \notin Grants
    /\ \A a, b, c \in Sites :
          (<<a, b>> \in Grants /\ <<b, c>> \in Grants) => <<a, c>> \in Grants
    /\ \A a \in Sites : <<a, ChosenSite>> \notin Grants
    /\ <<ChosenSite, 2>> \notin Grants /\ <<2, ChosenSite>> \notin Grants
    /\ \A b \in Sites \ {ChosenSite, 2} : <<ChosenSite, b>> \in Grants
    /\ \A i \in 1..Len(trace) :
          SiteOf(trace[i]) # 0 =>
              \/ SiteOf(trace[i]) = ChosenSite
              \/ <<ChosenSite, SiteOf(trace[i])>> \in Grants

\* the balance was read from site 5 with the cookies of a negotiation at
\* site 1
C21_Witness ==
    /\ op = "get_dining_dollars"
    /\ outcome = "ok"
    /\ authState = "returned"
    /\ Count(trace, "GET mfaprofile") = 1
    /\ Count(trace, "GET cas.do") = 1

\* C22: the calls of an operation never nest deeper than five frames, and in
\* one operation authenticate is entered at most once, at most one passcode
\* is taken and new codes are requested at most once.
C22_OneOfEach ==
    /\ Len(stack) <= 5
    /\ Count(trace, "authenticate") <= 1
    /\ Count(trace, "pop") <= 1
    /\ Count(trace, "replenish") <= 1

\* C23: whatever list the object holds, the scraped one and the empty one
\* included, writing it as _write_codes does and reading the text back as
\* the constructor does gives the same list in the same order; and the
\* reader makes no entry of a blank line of codes.txt.
C23_RoundTrip ==
    /\ ReadCodes(WriteCodes(codes)) = codes
    /\ \A i \in 1..Len(ReadCodes(file)) :
          /\ ReadCodes(file)[i] # <<>>
          /\ ~IsSpace(ReadCodes(file)[i])

=============================================================================
